---------------------------- MODULE Spec2Model ----------------------------
(***************************************************************************)
(* Axon backend: GET /study-queue (routes-study-queue.tsx).                *)
(*                                                                         *)
(* Time is counted in whole days.  Real numbers are fixed point: scores,   *)
(* factors and probabilities are integers in millionths (Unit = 1.0);      *)
(* the values put in a queue entry are rounded to thousandths, as the      *)
(* handler rounds them to three decimals.                                  *)
(***************************************************************************)
EXTENDS Integers, Sequences, FiniteSets, TLC

\* ------------------------------------------------------------------ bounds
NumCards == 3        \* flashcards in the catalog
MaxDeleted == 1      \* soft-deleted hierarchy rows (SpecScope)

\* --------------------------------------------------------------- constants
Unit == 1000 * 1000                  \* 1.0 in fixed point
Milli == 1000                        \* thousandths in 1.0 (Math.round(x * 1000) / 1000)
\* A value that may be null (JS null or undefined, SQL NULL) is a sequence of
\* length 0 or 1.
Null == << >>
Some(x) == << x >>
Val(v) == v[1]

\* A text (a query parameter, a uuid) is a sequence of one-character strings.
Rep(ch, n) == [i \in 1..n |-> ch]
DigitChars == <<"0", "1", "2", "3", "4", "5", "6", "7", "8", "9">>
HexDigits ==
  {DigitChars[i] : i \in 1..10} \cup {"a", "b", "c", "d", "e", "f"}
    \cup {"A", "B", "C", "D", "E", "F"}
\* JS truthiness of a string | null: null and "" are falsy.
Truthy(v) == v # Null /\ Val(v) # << >>

\* NEED_CONFIG, weights in hundredths
overdueWeight == 40
masteryWeight == 30
fragilityWeight == 20
noveltyWeight == 10
graceDays == 1

Min(a, b) == IF a < b THEN a ELSE b
Max(a, b) == IF a > b THEN a ELSE b

\* Math.exp(-k/2) in millionths, k >= 0 half units; 0 beyond the table.
ExpNegHalvesTable ==
  << 606531, 367879, 223130, 135335, 82085, 49787, 30197, 18316, 11109, 6738,
     4087, 2479, 1503, 912, 553, 335, 203, 123, 75, 45, 28, 17, 10, 6, 4, 2,
     1, 1, 1 >>

ExpNegHalves(k) ==
  IF k = 0 THEN Unit
  ELSE IF k <= Len(ExpNegHalvesTable) THEN ExpNegHalvesTable[k]
  ELSE 0

\* Math.round(x * 1000) / 1000 of a value in millionths, in thousandths.
Round3(x) == (x + (Unit \div Milli) \div 2) \div (Unit \div Milli)

\* ------------------------------------------------------ NeedScore (62-97)
\* input: [dueAt, fsrsLapses, fsrsReps, fsrsState, pKnow]; dueAt may be null,
\* pKnow is in millionths.
\* Mutant of overdueFactor: a card without due date counts twice.
overdueFactorDouble(dueAt, now) ==
  IF dueAt = Null THEN 2 * Unit
  ELSE LET daysOverdue == now - Val(dueAt)
       IN  IF daysOverdue > 0
             THEN Unit - ExpNegHalves((2 * daysOverdue) \div graceDays)
             ELSE 0

overdueFactor(dueAt, now) ==
  IF dueAt = Null THEN Unit
  ELSE LET daysOverdue == now - Val(dueAt)
       IN  IF daysOverdue > 0
             THEN Unit - ExpNegHalves((2 * daysOverdue) \div graceDays)
             ELSE 0

needFragility(fsrsLapses, fsrsReps) ==
  Min(Unit, (fsrsLapses * Unit) \div Max(1, fsrsReps + fsrsLapses + 1))

\* Mutant of needNovelty: no boost for a new card.
needNoveltyNever(fsrsState) == 0

needNovelty(fsrsState) == IF fsrsState = "new" THEN Unit ELSE 0

\* Mutant of calculateNeedScore: the mastery factor is p_know, not 1 - p_know.
calculateNeedScoreMasteryDirect(input, now) ==
  LET overdue == overdueFactor(input.dueAt, now)
      needMastery == input.pKnow
      score == (overdueWeight * overdue
                + masteryWeight * needMastery
                + fragilityWeight * needFragility(input.fsrsLapses, input.fsrsReps)
                + noveltyWeight * needNovelty(input.fsrsState)) \div 100
  IN  Max(0, Min(Unit, score))

calculateNeedScore(input, now) ==
  LET overdue == overdueFactor(input.dueAt, now)
      needMastery == Unit - input.pKnow
      score == (overdueWeight * overdue
                + masteryWeight * needMastery
                + fragilityWeight * needFragility(input.fsrsLapses, input.fsrsReps)
                + noveltyWeight * needNovelty(input.fsrsState)) \div 100
  IN  Max(0, Min(Unit, score))

\* ----------------------------------------------------- retention (101-110)
\* stabilityDays is 0, 1 or 2 in the model, so daysSince/stability is a
\* whole number of half units.
\* Mutant of calculateRetention: a review dated after now is not clamped to 1
\* (exp(x) >= 1 + x).
calculateRetentionNoClamp(lastReviewAt, stabilityDays, now) ==
  IF lastReviewAt = Null \/ stabilityDays <= 0 THEN 0
  ELSE LET daysSince == now - Val(lastReviewAt)
       IN  IF daysSince <= 0 THEN Unit + ((0 - daysSince) * Unit) \div stabilityDays
           ELSE Max(0, Min(Unit, ExpNegHalves((2 * daysSince) \div stabilityDays)))

calculateRetention(lastReviewAt, stabilityDays, now) ==
  IF lastReviewAt = Null \/ stabilityDays <= 0 THEN 0
  ELSE LET daysSince == now - Val(lastReviewAt)
       IN  IF daysSince <= 0 THEN Unit   \* exp(x) >= 1 for x >= 0, clamped to 1
           ELSE Max(0, Min(Unit, ExpNegHalves((2 * daysSince) \div stabilityDays)))

\* -------------------------------------------------- mastery color (114-119)
getMasteryColor(pKnow) ==
  IF pKnow < 0 THEN "gray"
  ELSE IF pKnow >= 80 * (Unit \div 100) THEN "green"
  ELSE IF pKnow >= 50 * (Unit \div 100) THEN "yellow"
  ELSE "red"

\* ------------------------------------------------------------------ store
\* The containment hierarchy (course -> semester -> section -> topic ->
\* summary).  Its shape is fixed; which rows are soft-deleted varies.
\*   course a: semesters 1, 2; section 1 (semester 1), section 2 (semester 2);
\*              topics 1, 2 (section 1); summary 1 (topic 1), summary 2 (topic 2)
\*   course b: semester 3, section 3, topic 3, summary 3
\*   course c: no semester
\* The course ids: 00000000-0000-0000-0000-00000000000a, ...b and ...c.
CourseUuid(last) ==
  Rep("0", 8) \o <<"-">> \o Rep("0", 4) \o <<"-">> \o Rep("0", 4) \o <<"-">>
    \o Rep("0", 4) \o <<"-">> \o Rep("0", 11) \o <<last>>
Uuids == {CourseUuid("a"), CourseUuid("b"), CourseUuid("c")}
semesterCourse ==
  [s \in {1, 2, 3} |-> IF s = 3 THEN CourseUuid("b") ELSE CourseUuid("a")]
sectionSemester == [s \in {1, 2, 3} |-> s]
topicSection == [t \in {1, 2, 3} |-> IF t = 3 THEN 3 ELSE 1]
summaryTopic == [s \in {1, 2, 3} |-> s]
SemesterIds == DOMAIN semesterCourse
SectionIds == DOMAIN sectionSemester
TopicIds == DOMAIN topicSection
SummaryIds == DOMAIN summaryTopic
SubtopicIds == {1, 2}
HierarchyRows ==
  ({"semesters"} \X SemesterIds) \cup ({"sections"} \X SectionIds)
    \cup ({"topics"} \X TopicIds) \cup ({"summaries"} \X SummaryIds)

Cards == 1..NumCards

VARIABLES
  flashcards,        \* table flashcards: card -> [summary_id, subtopic_id, is_active]
  fsrs_states,       \* table fsrs_states of the learner: card -> row or Null
  bkt_states,        \* table bkt_states of the learner: subtopic -> p_know or Null
  deleted,           \* hierarchy rows with deleted_at set
  query,             \* the query string of the request: [course_id, include_future, limit]
  pc,                \* "idle", "fetching" (inside Promise.all), "done"
  courseId, includeFuture, limit, now,      \* parsed request parameters
  bktResult, fsrsResult, flashcardsResult,  \* "none", "pending", "ok", "error"
  scopePc,           \* resolveSummaryIdsForCourse: "none", "rpc", a fallback table, "done"
  scopeIds,          \* ids found at the previous level of the fallback walk
  allowedSummaryIds, \* [kind, ids]: "undefined" (no filter), "null" (no content), "set"
  rpcFailed,         \* the batched query of this request failed
  fallbackFailed,    \* a query of the fallback walk of this request failed
  queue,             \* the sorted queue before truncation
  response,          \* [status, error, queue, meta]; status 0 = none yet
  \* the scoring of one card (lines 378-394)
  scoreInput,        \* [dueAt, fsrsLapses, fsrsReps, fsrsState, pKnow, lastReviewAt, stability]
  scoreOutput,       \* Null, or Some([needScore, retention]) in millionths
  \* rate-limit.ts
  version,           \* which of the two versions of rate-limit.ts is deployed
  config,            \* RateLimitConfig of the caller: [maxRequests, windowMs]
  clock,             \* Date.now(), in ms
  rateLimitMap,      \* key -> Null or Some([count, resetAt]) (lines 38, 71-94)
  store,             \* key -> Null or Some([count, resetAt]) (lines 179, 204-231)
  lastCall,          \* the checkRateLimit call just made, Null after any other step
  window,            \* history: key -> [calls, end] of the key's latest window
  probeStart,        \* observer: start of the watched time interval
  probeAllowed,      \* observer: allowed calls of ProbeKey inside the interval
  \* routes-billing.tsx, POST /webhooks/stripe
  processed_webhook_events,   \* table: the event ids marked as processed
  institution_subscriptions,  \* event id -> writes made to the table for the event
  memberships,       \* event id -> updates of memberships made for the event
  deliveries,        \* delivery -> [event, pc, response] of one POST
  \* routes-mux.ts, POST /mux/track-view, and upsert_video_view
  video_views,       \* table: (video, user) -> Null or Some(view_count)
  trackViews         \* call -> [key, via, pc, existing, ok] of one call

storeVars == <<flashcards, fsrs_states, bkt_states, deleted>>
reqVars == <<query, courseId, includeFuture, limit, now>>
fetchVars == <<bktResult, fsrsResult, flashcardsResult>>
scopeVars == <<scopePc, scopeIds, allowedSummaryIds, rpcFailed, fallbackFailed>>
studyVars == <<storeVars, reqVars, fetchVars, scopeVars, pc, queue, response>>
scoreVars == <<scoreInput, scoreOutput>>
limiterVars ==
  <<version, config, clock, rateLimitMap, store, lastCall, window, probeStart,
    probeAllowed>>
billingVars ==
  <<processed_webhook_events, institution_subscriptions, memberships, deliveries>>
muxVars == <<video_views, trackViews>>
nonStudyVars == <<scoreVars, limiterVars, billingVars, muxVars>>
nonScoreVars == <<studyVars, limiterVars, billingVars, muxVars>>
nonLimiterVars == <<studyVars, scoreVars, billingVars, muxVars>>
nonBillingVars == <<studyVars, scoreVars, limiterVars, muxVars>>
nonMuxVars == <<studyVars, scoreVars, limiterVars, billingVars>>
vars == <<studyVars, scoreVars, limiterVars, billingVars, muxVars>>

\* --------------------------------------------------------------- queries
\* flashcardsQuery (223-229): .is("deleted_at", null).eq("is_active", true).
\* No .order(): the rows come back in an order the database chooses.
flashcardsQuery ==
  {c \in Cards : flashcards[c].deleted_at = Null /\ flashcards[c].is_active}

\* fsrsQuery (211-220): the learner's rows, with .lte("due_at", now) unless
\* include_future (a NULL due_at fails the comparison).  The rows are only
\* put in a map keyed by flashcard_id, so the result is that map.
fsrsRowFetched(c, incl, t) ==
  /\ fsrs_states[c] # Null
  /\ incl \/ (Val(fsrs_states[c]).due_at # Null /\ Val(Val(fsrs_states[c]).due_at) <= t)

fsrsQuery(incl, t) ==
  [c \in {d \in Cards : fsrsRowFetched(d, incl, t)} |-> Val(fsrs_states[c])]

\* bktQuery (232-235) into bktMap (293-302)
bktQuery ==
  [s \in {u \in SubtopicIds : bkt_states[u] # Null} |-> Val(bkt_states[s])]

IsDeleted(table, id) == <<table, id>> \in deleted

\* get_course_summary_ids (SQL, 22-28): the 4-table join
get_course_summary_ids(p_course_id) ==
  {s \in SummaryIds :
     /\ ~IsDeleted("summaries", s)
     /\ ~IsDeleted("topics", summaryTopic[s])
     /\ ~IsDeleted("sections", topicSection[summaryTopic[s]])
     /\ ~IsDeleted("semesters", sectionSemester[topicSection[summaryTopic[s]]])
     /\ semesterCourse[sectionSemester[topicSection[summaryTopic[s]]]] = p_course_id}

\* The queries of the fallback walk (148-179)
semestersQuery(course) ==
  {s \in SemesterIds : semesterCourse[s] = course /\ ~IsDeleted("semesters", s)}
sectionsQuery(semesterIds) ==
  {s \in SectionIds : sectionSemester[s] \in semesterIds /\ ~IsDeleted("sections", s)}
\* Mutant of topicsQuery: soft-deleted topics are not filtered out.
topicsQueryWithDeleted(sectionIds) ==
  {t \in TopicIds : topicSection[t] \in sectionIds}
topicsQuery(sectionIds) ==
  {t \in TopicIds : topicSection[t] \in sectionIds /\ ~IsDeleted("topics", t)}
summariesQuery(topicIds) ==
  {s \in SummaryIds : summaryTopic[s] \in topicIds /\ ~IsDeleted("summaries", s)}

fallbackQuery(table, course, ids) ==
  CASE table = "semesters" -> semestersQuery(course)
    [] table = "sections" -> sectionsQuery(ids)
    [] table = "topics" -> topicsQuery(ids)
    [] table = "summaries" -> summariesQuery(ids)

nextTable(table) ==
  CASE table = "semesters" -> "sections"
    [] table = "sections" -> "topics"
    [] table = "topics" -> "summaries"
    [] table = "summaries" -> "done"

NoFilter == [kind |-> "undefined", ids |-> {}]
NoContent == [kind |-> "null", ids |-> {}]
IdSet(ids) == [kind |-> "set", ids |-> ids]

\* ------------------------------------------------- join loop (355-418)
\* Mutant of skippedByCourse: the course filter is not applied.
skippedByCourseNever(card, allowed) == FALSE

skippedByCourse(card, allowed) ==
  allowed.kind = "set" /\ flashcards[card].summary_id \notin allowed.ids

\* Mutant of skippedAsFuture: an item with no fetched row is taken as not due.
skippedUnlessDue(card, fsrsMap, incl, t) ==
  /\ ~incl
  /\ \/ card \notin DOMAIN fsrsMap
     \/ (fsrsMap[card].due_at # Null /\ Val(fsrsMap[card].due_at) > t)

\* "if (fsrs && !includeFuture) { if (new Date(fsrs.due_at) > now) continue }"
skippedAsFuture(card, fsrsMap, incl, t) ==
  /\ card \in DOMAIN fsrsMap
  /\ ~incl
  /\ fsrsMap[card].due_at # Null
  /\ Val(fsrsMap[card].due_at) > t

queueItem(card, fsrsMap, bktMap, t) ==
  LET isNew == card \notin DOMAIN fsrsMap
      subtopicId == flashcards[card].subtopic_id
      pKnow == IF subtopicId # Null /\ Val(subtopicId) \in DOMAIN bktMap
                 THEN bktMap[Val(subtopicId)].p_know
                 ELSE 0
      needScore ==
        calculateNeedScore(
          [dueAt |-> IF isNew THEN Null ELSE fsrsMap[card].due_at,
           fsrsLapses |-> IF isNew THEN 0 ELSE fsrsMap[card].lapses,
           fsrsReps |-> IF isNew THEN 0 ELSE fsrsMap[card].reps,
           fsrsState |-> IF isNew THEN "new" ELSE fsrsMap[card].state,
           pKnow |-> pKnow], t)
      retention ==
        IF isNew THEN 0
        ELSE calculateRetention(fsrsMap[card].last_review_at,
                                fsrsMap[card].stability, t)
  IN  [flashcard_id |-> card,
       summary_id |-> flashcards[card].summary_id,
       subtopic_id |-> subtopicId,
       need_score |-> Round3(needScore),
       retention |-> Round3(retention),
       mastery_color |-> getMasteryColor(pKnow),
       p_know |-> Round3(pKnow),
       fsrs_state |-> IF isNew THEN "new" ELSE fsrsMap[card].state,
       due_at |-> IF isNew THEN Null ELSE fsrsMap[card].due_at,
       is_new |-> isNew]

\* The loop over flashcardsResult.data, in the order the rows came back.
RECURSIVE joinLoop(_, _, _, _, _, _)
joinLoop(cards, allowed, fsrsMap, bktMap, incl, t) ==
  IF cards = << >> THEN << >>
  ELSE LET card == Head(cards)
           rest == joinLoop(Tail(cards), allowed, fsrsMap, bktMap, incl, t)
       IN  IF skippedByCourse(card, allowed) THEN rest
           ELSE IF skippedAsFuture(card, fsrsMap, incl, t) THEN rest
           ELSE << queueItem(card, fsrsMap, bktMap, t) >> \o rest

\* ------------------------------------------------------- sort (421-426)
\* Mutant of compare: the is_new tie-break is missing.
compareNoNewTieBreak(a, b) ==
  IF b.need_score # a.need_score THEN b.need_score - a.need_score
  ELSE IF a.retention # b.retention THEN a.retention - b.retention
  ELSE 0

\* The comparator; need_score and retention are in thousandths.
compare(a, b) ==
  IF b.need_score # a.need_score THEN b.need_score - a.need_score
  ELSE IF a.retention # b.retention THEN a.retention - b.retention
  ELSE IF a.is_new # b.is_new THEN (IF a.is_new THEN 1 ELSE -1)
  ELSE 0

\* Array.prototype.sort is stable: an element goes after every element already
\* placed that does not compare greater than it.
RECURSIVE insertSorted(_, _)
insertSorted(e, sorted) ==
  IF sorted = << >> THEN << e >>
  ELSE IF compare(Head(sorted), e) > 0 THEN << e >> \o sorted
  ELSE << Head(sorted) >> \o insertSorted(e, Tail(sorted))

RECURSIVE sortQueue(_)
sortQueue(q) ==
  IF q = << >> THEN << >>
  ELSE insertSorted(q[Len(q)], sortQueue(SubSeq(q, 1, Len(q) - 1)))

\* Mutant of slice: one entry more than the limit.
sliceOneMore(q, n) == SubSeq(q, 1, Min(n + 1, Len(q)))

\* queue.slice(0, limit)
slice(q, n) == SubSeq(q, 1, Min(n, Len(q)))

\* ------------------------------------------------------------ responses
NoMeta ==
  [total_due |-> 0, total_new |-> 0, total_in_queue |-> 0, returned |-> 0,
   limit |-> 0, include_future |-> FALSE, course_id |-> Null]
NoResponse == [status |-> 0, error |-> "", queue |-> << >>, meta |-> NoMeta]
errResponse(message, status) ==
  [status |-> status, error |-> message, queue |-> << >>, meta |-> NoMeta]
okResponse(q, meta) == [status |-> 200, error |-> "", queue |-> q, meta |-> meta]

countNew(q) == Cardinality({i \in 1..Len(q) : q[i].is_new})
countReview(q) == Cardinality({i \in 1..Len(q) : ~q[i].is_new})

\* The queue of lines 351-426 for rows that came back in the order cards.
sortedQueue(cards) ==
  sortQueue(joinLoop(cards, allowedSummaryIds, fsrsQuery(includeFuture, now),
                     bktQuery, includeFuture, now))

\* Mutant of fetchError: the flashcards error is not checked.
fetchErrorNoFlashcards ==
  IF bktResult = "error" THEN "Fetch bkt_states failed"
  ELSE IF fsrsResult = "error" THEN "Fetch fsrs_states failed"
  ELSE ""

\* Lines 249-269: the first failed mandatory fetch, "" when none failed.
fetchError ==
  IF bktResult = "error" THEN "Fetch bkt_states failed"
  ELSE IF fsrsResult = "error" THEN "Fetch fsrs_states failed"
  ELSE IF flashcardsResult = "error" THEN "Fetch flashcards failed"
  ELSE ""

\* Mutant of emptyScope: null is not told apart from "no filter".
emptyScopeNever == FALSE

\* Line 272: the course filter returned null
emptyScope == Truthy(courseId) /\ allowedSummaryIds.kind = "null"

\* Lines 248-445: what the handler answers once Promise.all has resolved.
respond(cards) ==
  IF fetchError # "" THEN errResponse(fetchError, 500)
  ELSE IF emptyScope
    THEN okResponse(<< >>,
           [total_due |-> 0, total_new |-> 0, total_in_queue |-> 0,
            returned |-> 0, limit |-> limit, include_future |-> includeFuture,
            course_id |-> courseId])
  ELSE LET q == sortedQueue(cards)
           limited == slice(q, limit)
       IN  okResponse(limited,
             [total_due |-> countReview(q), total_new |-> countNew(q),
              total_in_queue |-> Len(q), returned |-> Len(limited),
              limit |-> limit, include_future |-> includeFuture,
              course_id |-> courseId])

\* The pre-truncation queue the handler held when it answered (empty when it
\* answered before building one).
builtQueue(cards) ==
  IF fetchError # "" \/ emptyScope THEN << >> ELSE sortedQueue(cards)

\* ------------------------------------------------- parameters (193-201)
DefaultLimit == 20
MaxLimit == 100

\* isUuid (validate.ts): the text matches
\* /^[0-9a-f]{8}-[0-9a-f]{4}-[0-9a-f]{4}-[0-9a-f]{4}-[0-9a-f]{12}$/i
isUuid(v) ==
  /\ Len(v) = 36
  /\ \A i \in 1..36 :
       IF i \in {9, 14, 19, 24} THEN v[i] = "-" ELSE v[i] \in HexDigits

\* parseInt(text, 10): leading white space is skipped, then an optional sign
\* is read, then decimal digits up to the first other character; the result
\* is NaN (Null) when no digit was read.
WhiteSpace == {" "}
isDigit(ch) == \E i \in 1..10 : DigitChars[i] = ch
digitValue(ch) == (CHOOSE i \in 1..10 : DigitChars[i] = ch) - 1
RECURSIVE skipWhiteSpace(_)
skipWhiteSpace(text) ==
  IF text # << >> /\ Head(text) \in WhiteSpace THEN skipWhiteSpace(Tail(text))
  ELSE text
RECURSIVE readDigits(_, _)
readDigits(text, acc) ==
  IF text # << >> /\ isDigit(Head(text))
    THEN readDigits(Tail(text), 10 * acc + digitValue(Head(text)))
    ELSE acc
parseInt(text) ==
  LET s == skipWhiteSpace(text)
      signed == s # << >> /\ Head(s) \in {"+", "-"}
      body == IF signed THEN Tail(s) ELSE s
  IN  IF body = << >> \/ ~isDigit(Head(body)) THEN Null
      ELSE Some((IF signed /\ Head(s) = "-" THEN -1 ELSE 1) * readDigits(body, 0))

\* Mutant of parseLimit: a limit below 1 is not replaced by the default.
parseLimitNoFloor(param) ==
  LET parsed == parseInt(IF param = Null THEN <<"2", "0">> ELSE Val(param))
      lim == IF parsed = Null THEN DefaultLimit ELSE Val(parsed)
  IN  IF lim > MaxLimit THEN MaxLimit ELSE lim

\* Lines 195-197: parseInt(query("limit") ?? "20", 10), then the two ifs.
parseLimit(param) ==
  LET parsed == parseInt(IF param = Null THEN <<"2", "0">> ELSE Val(param))
      lim == IF parsed = Null \/ Val(parsed) < 1 THEN DefaultLimit ELSE Val(parsed)
  IN  IF lim > MaxLimit THEN MaxLimit ELSE lim

\* The query strings a request comes with.
CourseParams ==
  {Null, Some(CourseUuid("a")), Some(CourseUuid("c")), Some(<<"x">>)}
IncludeFutureParams == {Null, Some(<<"1">>)}
LimitParams == {Null, Some(<<"1">>)}
Queries(courses, includes, limits) ==
  [course_id : courses, include_future : includes, limit : limits]

\* ---------------------------------------------------------- rate-limit.ts
\* The file holds two versions of the limiter: the one behind
\* rateLimitMiddleware (lines 1-143, fixed window and maximum, a count that
\* also counts the denied calls) and the one taking a RateLimitConfig
\* (lines 145-236, a count that stops at the maximum).
RATE_LIMIT_WINDOW_MS == 60000
RATE_LIMIT_MAX_REQUESTS == 120
Versions == {"middleware", "config"}
Keys == {"u1", "u2"}
MiddlewareConfig ==
  [maxRequests |-> RATE_LIMIT_MAX_REQUESTS, windowMs |-> RATE_LIMIT_WINDOW_MS]

\* Mutant of checkRateLimit: the call that reaches the maximum is denied.
checkRateLimitOffByOne(entry, t) ==
  IF entry = Null \/ t > Val(entry).resetAt
    THEN [entry |-> Some([count |-> 1, resetAt |-> t + RATE_LIMIT_WINDOW_MS]),
          allowed |-> TRUE, current |-> 1]
    ELSE [entry |-> Some([count |-> Val(entry).count + 1,
                          resetAt |-> Val(entry).resetAt]),
          allowed |-> ~(Val(entry).count + 1 >= RATE_LIMIT_MAX_REQUESTS),
          current |-> Val(entry).count + 1]

\* checkRateLimit(key, now), lines 71-94, on the entry of the key: the entry
\* it leaves in the map and what it returns.
checkRateLimit(entry, t) ==
  IF entry = Null \/ t > Val(entry).resetAt
    THEN [entry |-> Some([count |-> 1, resetAt |-> t + RATE_LIMIT_WINDOW_MS]),
          allowed |-> TRUE, current |-> 1]
    ELSE [entry |-> Some([count |-> Val(entry).count + 1,
                          resetAt |-> Val(entry).resetAt]),
          allowed |-> ~(Val(entry).count + 1 > RATE_LIMIT_MAX_REQUESTS),
          current |-> Val(entry).count + 1]

\* Mutant of checkRateLimitConfig: an expired window is not replaced.
checkRateLimitConfigNoExpiry(entry, cfg, t) ==
  IF entry = Null
    THEN [entry |-> Some([count |-> 1, resetAt |-> t + cfg.windowMs]),
          allowed |-> TRUE, remaining |-> cfg.maxRequests - 1]
    ELSE IF Val(entry).count >= cfg.maxRequests
      THEN [entry |-> entry, allowed |-> FALSE, remaining |-> 0]
      ELSE [entry |-> Some([count |-> Val(entry).count + 1,
                            resetAt |-> Val(entry).resetAt]),
            allowed |-> TRUE,
            remaining |-> cfg.maxRequests - (Val(entry).count + 1)]

\* checkRateLimit(key, config), lines 204-231, with now = Date.now()
checkRateLimitConfig(entry, cfg, t) ==
  IF entry = Null \/ t > Val(entry).resetAt
    THEN [entry |-> Some([count |-> 1, resetAt |-> t + cfg.windowMs]),
          allowed |-> TRUE, remaining |-> cfg.maxRequests - 1]
    ELSE IF Val(entry).count >= cfg.maxRequests
      THEN [entry |-> entry, allowed |-> FALSE, remaining |-> 0]
      ELSE [entry |-> Some([count |-> Val(entry).count + 1,
                            resetAt |-> Val(entry).resetAt]),
            allowed |-> TRUE,
            remaining |-> cfg.maxRequests - (Val(entry).count + 1)]

\* cleanupExpired (55-65) and the setInterval callback (186-193)
cleanupExpired(map, t) ==
  [k \in Keys |-> IF map[k] # Null /\ t > Val(map[k]).resetAt THEN Null ELSE map[k]]

NoEntries == [k \in Keys |-> Null]
NoWindows == [k \in Keys |-> [calls |-> 0, end |-> -1]]
LimiterIdle ==
  /\ version = "middleware" /\ config = MiddlewareConfig /\ clock = 0
  /\ rateLimitMap = NoEntries /\ store = NoEntries
  /\ lastCall = Null /\ window = NoWindows
  /\ probeStart = 0 /\ probeAllowed = 0

\* ------------------------------------------ routes-billing.tsx, routes-mux.ts
\* The webhook deliveries and the track-view calls of a run.
MaxDeliveries == 3   \* POSTs to /webhooks/stripe
MaxCalls == 3        \* calls of track-view or upsert_video_view
Deliveries == 1..MaxDeliveries
Calls == 1..MaxCalls
\* event.id -> event.type of the events Stripe sends
EventTypes ==
  [evt_1 |-> "checkout.session.completed", evt_2 |-> "customer.subscription.deleted"]
EventIds == DOMAIN EventTypes
NoDelivery == [event |-> "", pc |-> "waiting", response |-> ""]
NoWrites == [e \in EventIds |-> 0]
BillingIdle ==
  /\ processed_webhook_events = {}
  /\ institution_subscriptions = NoWrites /\ memberships = NoWrites
  /\ deliveries = [d \in Deliveries |-> NoDelivery]

\* the rows of video_views, by (video_id, user_id)
ViewKeys == {<<"v1", "s1">>, <<"v2", "s1">>}
NoTrackView ==
  [key |-> <<"", "">>, via |-> "", pc |-> "waiting", existing |-> Null, ok |-> FALSE]
MuxIdle ==
  /\ video_views = [k \in ViewKeys |-> Null]
  /\ trackViews = [c \in Calls |-> NoTrackView]

\* ------------------------------------------------------------------- Init
\* The kinds of card the catalog is filled with: a flashcards row and the
\* learner's fsrs_states row for it, if any.
NewCard(summary, subtopic) ==
  [card |-> [summary_id |-> summary, subtopic_id |-> subtopic,
             is_active |-> TRUE, deleted_at |-> Null],
   fsrs |-> Null]
SeenCard(summary, subtopic, due, last, stab, reps, lapses, state) ==
  [card |-> [summary_id |-> summary, subtopic_id |-> subtopic,
             is_active |-> TRUE, deleted_at |-> Null],
   fsrs |-> Some([due_at |-> Some(due), last_review_at |-> last, stability |-> stab,
                  reps |-> reps, lapses |-> lapses, state |-> state])]

CardKinds ==
  << NewCard(1, Some(1)),
     NewCard(2, Some(2)),
     SeenCard(1, Some(1), -2, Some(-3), 2, 4, 1, "review"),
     SeenCard(2, Null, 0, Some(-2), 1, 2, 0, "review"),
     SeenCard(1, Null, 1, Some(-1), 2, 1, 0, "learning"),
     SeenCard(2, Null, -30, Null, 1, 0, 0, "new"),
     [card |-> [summary_id |-> 1, subtopic_id |-> Null, is_active |-> FALSE,
                deleted_at |-> Null], fsrs |-> Null],
     [card |-> [summary_id |-> 1, subtopic_id |-> Null, is_active |-> TRUE,
                deleted_at |-> Some(-1)], fsrs |-> Null] >>

\* Cards are interchangeable, so a catalog is a non-decreasing choice of kinds.
Catalogs ==
  {k \in [Cards -> 1..Len(CardKinds)] : \A c \in Cards : c = 1 \/ k[c - 1] <= k[c]}

BktTables == { [s \in SubtopicIds |-> IF s = 1 THEN Some([p_know |-> 600 * Milli])
                                               ELSE Null] }

\* Soft-deleted hierarchy rows: topic 1, so course a keeps summary 2 only.
DeletedChoices == { {<<"topics", 1>>} }

StudyInitWith(catalogs, bktTables, deletedChoices, queries) ==
  /\ \E k \in catalogs :
       /\ flashcards = [c \in Cards |-> CardKinds[k[c]].card]
       /\ fsrs_states = [c \in Cards |-> CardKinds[k[c]].fsrs]
  /\ bkt_states \in bktTables
  /\ deleted \in deletedChoices
  /\ query \in queries
  /\ pc = "idle"
  /\ courseId = Null /\ includeFuture = FALSE /\ limit = DefaultLimit /\ now = 0
  /\ bktResult = "none" /\ fsrsResult = "none" /\ flashcardsResult = "none"
  /\ scopePc = "none" /\ scopeIds = {} /\ allowedSummaryIds = NoFilter
  /\ rpcFailed = FALSE /\ fallbackFailed = FALSE
  /\ queue = << >>
  /\ response = NoResponse

StudyInit(catalogs, deletedChoices, queries) ==
  StudyInitWith(catalogs, BktTables, deletedChoices, queries)

\* The scoring component and the rate limiter before they are used.
NoScoreInput ==
  [dueAt |-> Null, fsrsLapses |-> 0, fsrsReps |-> 0, fsrsState |-> "new",
   pKnow |-> 0, lastReviewAt |-> Null, stability |-> 1]
ScoreIdle == scoreInput = NoScoreInput /\ scoreOutput = Null

InitOf(catalogs, deletedChoices, queries) ==
  /\ StudyInit(catalogs, deletedChoices, queries)
  /\ ScoreIdle
  /\ LimiterIdle
  /\ BillingIdle
  /\ MuxIdle

InitWith(catalogs, deletedChoices) ==
  InitOf(catalogs, deletedChoices,
         Queries(CourseParams, IncludeFutureParams, LimitParams))

Init == InitWith(Catalogs, DeletedChoices)

\* ---------------------------------------------------------------- actions
\* Lines 187-246: parse the parameters, reject a malformed course_id, else
\* build the queries and start them all (Promise.all).
Start ==
  /\ pc = "idle"
  /\ courseId' = query.course_id
  /\ includeFuture' = (query.include_future = Some(<<"1">>))
  /\ limit' = parseLimit(query.limit)
  /\ now' = 0
  /\ IF Truthy(query.course_id) /\ ~isUuid(Val(query.course_id))
       THEN /\ response' = errResponse("course_id must be a valid UUID", 400)
            /\ pc' = "done"
            /\ UNCHANGED <<fetchVars, scopeVars>>
       ELSE /\ pc' = "fetching"
            /\ bktResult' = "pending"
            /\ fsrsResult' = "pending"
            /\ flashcardsResult' = "pending"
            /\ IF Truthy(query.course_id)
                 THEN scopePc' = "rpc" /\ allowedSummaryIds' = NoFilter
                 ELSE scopePc' = "done" /\ allowedSummaryIds' = NoFilter
            /\ UNCHANGED <<scopeIds, rpcFailed, fallbackFailed, response>>
  /\ UNCHANGED <<storeVars, query, queue>>
  /\ UNCHANGED nonStudyVars

\* One of the three mandatory queries resolves, with rows or with an error.
BktComplete ==
  /\ pc = "fetching" /\ bktResult = "pending"
  /\ \E ok \in BOOLEAN : bktResult' = IF ok THEN "ok" ELSE "error"
  /\ UNCHANGED <<storeVars, reqVars, fsrsResult, flashcardsResult, scopeVars, pc,
                 queue, response>>
  /\ UNCHANGED nonStudyVars

FsrsComplete ==
  /\ pc = "fetching" /\ fsrsResult = "pending"
  /\ \E ok \in BOOLEAN : fsrsResult' = IF ok THEN "ok" ELSE "error"
  /\ UNCHANGED <<storeVars, reqVars, bktResult, flashcardsResult, scopeVars, pc,
                 queue, response>>
  /\ UNCHANGED nonStudyVars

FlashcardsComplete ==
  /\ pc = "fetching" /\ flashcardsResult = "pending"
  /\ \E ok \in BOOLEAN : flashcardsResult' = IF ok THEN "ok" ELSE "error"
  /\ UNCHANGED <<storeVars, reqVars, bktResult, fsrsResult, scopeVars, pc,
                 queue, response>>
  /\ UNCHANGED nonStudyVars

\* resolveSummaryIdsForCourse, lines 133-148: the RPC resolves; with rows it
\* is the answer, with an error the walk starts with the semesters query.
rpcOutcome(ok) ==
  IF ok
    THEN [pc |-> "done",
          allowed |-> IF get_course_summary_ids(Val(courseId)) = {}
                        THEN NoContent
                        ELSE IdSet(get_course_summary_ids(Val(courseId))),
          failed |-> FALSE]
    ELSE [pc |-> "semesters", allowed |-> NoFilter, failed |-> TRUE]

RpcComplete ==
  /\ pc = "fetching" /\ scopePc = "rpc"
  /\ \E ok \in BOOLEAN :
       /\ scopePc' = rpcOutcome(ok).pc
       /\ allowedSummaryIds' = rpcOutcome(ok).allowed
       /\ rpcFailed' = rpcOutcome(ok).failed
  /\ UNCHANGED <<storeVars, reqVars, fetchVars, scopeIds, fallbackFailed, pc,
                 queue, response>>
  /\ UNCHANGED nonStudyVars

\* Lines 148-182: one query of the walk resolves.  Its error is not read: a
\* failed query has data = null, which is handled as no rows.
fallbackOutcomeNoShortCircuit(table, ok) ==
  LET rows == IF ok THEN fallbackQuery(table, Val(courseId), scopeIds) ELSE {}
  IN  IF nextTable(table) = "done"
        THEN [pc |-> "done", ids |-> {},
              allowed |-> IF rows = {} THEN NoContent ELSE IdSet(rows)]
        ELSE [pc |-> nextTable(table), ids |-> rows, allowed |-> NoFilter]

fallbackOutcome(table, ok) ==
  LET rows == IF ok THEN fallbackQuery(table, Val(courseId), scopeIds) ELSE {}
  IN  IF ~ok \/ rows = {}
        THEN [pc |-> "done", ids |-> {}, allowed |-> NoContent]
        ELSE IF nextTable(table) = "done"
          THEN [pc |-> "done", ids |-> {}, allowed |-> IdSet(rows)]
          ELSE [pc |-> nextTable(table), ids |-> rows, allowed |-> NoFilter]

FallbackComplete ==
  /\ pc = "fetching"
  /\ scopePc \in {"semesters", "sections", "topics", "summaries"}
  /\ \E ok \in BOOLEAN :
       /\ scopePc' = fallbackOutcome(scopePc, ok).pc
       /\ scopeIds' = fallbackOutcome(scopePc, ok).ids
       /\ allowedSummaryIds' = fallbackOutcome(scopePc, ok).allowed
       /\ fallbackFailed' = (fallbackFailed \/ ~ok)
  /\ UNCHANGED <<storeVars, reqVars, fetchVars, rpcFailed, pc, queue, response>>
  /\ UNCHANGED nonStudyVars

\* The orders in which the rows of a set can come back.
Orders(S) ==
  {f \in [1..Cardinality(S) -> S] : \A i, j \in DOMAIN f : i # j => f[i] # f[j]}

\* Mutant of allSettled: the handler does not wait for the scope resolution.
allSettledNoScope ==
  /\ bktResult \in {"ok", "error"}
  /\ fsrsResult \in {"ok", "error"}
  /\ flashcardsResult \in {"ok", "error"}

\* Lines 238-445: Promise.all has resolved: check the errors, build, sort,
\* truncate and answer.
allSettled ==
  /\ bktResult \in {"ok", "error"}
  /\ fsrsResult \in {"ok", "error"}
  /\ flashcardsResult \in {"ok", "error"}
  /\ scopePc = "done"

JoinAfterBkt ==
  /\ pc = "fetching"
  /\ bktResult \in {"ok", "error"}
  /\ \E cards \in Orders(flashcardsQuery) :
       /\ response' = respond(cards)
       /\ queue' = builtQueue(cards)
  /\ pc' = "done"
  /\ UNCHANGED <<storeVars, reqVars, fetchVars, scopeVars>>
  /\ UNCHANGED nonStudyVars

Join ==
  /\ pc = "fetching"
  /\ allSettled
  /\ \E cards \in Orders(flashcardsQuery) :
       /\ response' = respond(cards)
       /\ queue' = builtQueue(cards)
  /\ pc' = "done"
  /\ UNCHANGED <<storeVars, reqVars, fetchVars, scopeVars>>
  /\ UNCHANGED nonStudyVars

Next ==
  \/ Start
  \/ BktComplete
  \/ FsrsComplete
  \/ FlashcardsComplete
  \/ RpcComplete
  \/ FallbackComplete
  \/ Join

Spec == Init /\ [][Next]_vars

\* ------------------------------------------------ the hierarchy at large
\* One catalog, and every hierarchy with at most MaxDeleted soft-deleted rows.
ScopeCatalogs == { [c \in Cards |-> Min(c, 4)] }
ScopeDeletedChoices == {D \in SUBSET HierarchyRows : Cardinality(D) <= MaxDeleted}
InitScope == InitWith(ScopeCatalogs, ScopeDeletedChoices)
SpecScope == InitScope /\ [][Next]_vars

\* ----------------------------------------------- the parameters at large
\* One catalog and one hierarchy, and requests with course_id texts that are
\* empty, well formed (known or unknown course) or malformed (a character
\* that is no hex digit, 35 characters, a dash out of place), include_future
\* texts and limit texts of every kind parseInt tells apart.
WideCourseParams ==
  {Null, Some(<< >>), Some(CourseUuid("a")), Some(CourseUuid("F")),
   Some(CourseUuid("g")), Some(Tail(CourseUuid("a"))),
   Some(<<"-">> \o Rep("0", 35))}
WideIncludeFutureParams == {Null, Some(<<"1">>), Some(<<"t", "r", "u", "e">>)}
WideLimitParams ==
  {Null, Some(<< >>), Some(<<"a", "b", "c">>), Some(<<"0">>), Some(<<"-", "5">>),
   Some(<<"1">>), Some(<<"2">>), Some(<<"1", "0", "0">>), Some(<<"1", "0", "1">>),
   Some(<<"1", "0", "0", "0">>), Some(<<"2", "a", "b", "c">>), Some(<<" ", "3">>),
   Some(<<"+", "2">>), Some(<<"7", ".", "9">>)}
InitParams ==
  InitOf(ScopeCatalogs, DeletedChoices,
         Queries(WideCourseParams, WideIncludeFutureParams, WideLimitParams))
SpecParams == InitParams /\ [][Next]_vars

\* ================================================================ claims
Answered == pc = "done"
Success == pc = "done" /\ response.status = 200
IdsOf(q) == {q[i].flashcard_id : i \in DOMAIN q}
IsActiveCard(c) == flashcards[c].deleted_at = Null /\ flashcards[c].is_active
HasRow(c) == fsrs_states[c] # Null
DueLater(c) ==
  /\ HasRow(c)
  /\ Val(fsrs_states[c]).due_at # Null
  /\ Val(Val(fsrs_states[c]).due_at) > now
MandatoryOk == bktResult = "ok" /\ fsrsResult = "ok" /\ flashcardsResult = "ok"

\* C1: with include_future = false, no item whose scheduling row in the store
\* has due_at later than now is in the returned queue or among the items the
\* counters count (the queue before truncation).
C1_FutureItemsExcluded ==
  (Success /\ ~includeFuture) =>
    \A c \in Cards :
      DueLater(c) => c \notin IdsOf(response.queue) /\ c \notin IdsOf(queue)

FetchMessages ==
  [bkt |-> "Fetch bkt_states failed", fsrs |-> "Fetch fsrs_states failed",
   cards |-> "Fetch flashcards failed"]
\* C2: when one of the three mandatory fetches failed, the answer is a 500
\* whose message names a fetch that did fail, and it carries no queue entry.
C2_FetchErrorIsFatal ==
  (Answered /\ "error" \in {bktResult, fsrsResult, flashcardsResult}) =>
    /\ response.status = 500
    /\ response.queue = << >> /\ queue = << >>
    /\ \/ response.error = FetchMessages.bkt /\ bktResult = "error"
       \/ response.error = FetchMessages.fsrs /\ fsrsResult = "error"
       \/ response.error = FetchMessages.cards /\ flashcardsResult = "error"
C2_Witness ==
  /\ Answered /\ bktResult = "ok" /\ fsrsResult = "ok" /\ flashcardsResult = "error"
  /\ response.status = 500 /\ response.error = FetchMessages.cards
  /\ \E c \in Cards : IsActiveCard(c)

InOrder(a, b) ==
  \/ a.need_score > b.need_score
  \/ a.need_score = b.need_score /\ a.retention < b.retention
  \/ a.need_score = b.need_score /\ a.retention = b.retention
       /\ ~(a.is_new /\ ~b.is_new)
\* C3: in a success response every two consecutive entries a, b are in order:
\* a.need_score > b.need_score, or equal scores and a.retention < b.retention,
\* or both equal and not (a is new and b is not).
C3_Sorted ==
  Success =>
    \A i \in 1..(Len(response.queue) - 1) :
      InOrder(response.queue[i], response.queue[i + 1])
C3_Witness ==
  /\ Success
  /\ \E i \in 1..(Len(response.queue) - 1) :
       /\ response.queue[i].need_score = response.queue[i + 1].need_score
       /\ response.queue[i].retention = response.queue[i + 1].retention
       /\ ~response.queue[i].is_new /\ response.queue[i + 1].is_new
  /\ \E i \in 1..(Len(response.queue) - 1) :
       response.queue[i].need_score > response.queue[i + 1].need_score

IdOrder(S) == CHOOSE f \in Orders(S) : \A i, j \in DOMAIN f : i < j => f[i] < f[j]
PassesScope(c) ==
  \/ allowedSummaryIds.kind = "undefined"
  \/ allowedSummaryIds.kind = "set" /\ flashcards[c].summary_id \in allowedSummaryIds.ids
\* C5: every active item that passes the scope filter (or no scope is given)
\* and has no scheduling row is in the queue before truncation, whatever
\* include_future is.
C5_NewItemsQualify ==
  Success =>
    \A c \in Cards :
      (IsActiveCard(c) /\ ~HasRow(c) /\ PassesScope(c)) => c \in IdsOf(queue)
C5_Witness ==
  /\ Success /\ ~includeFuture /\ courseId # Null
  /\ \E c \in Cards : IsActiveCard(c) /\ ~HasRow(c) /\ c \in IdsOf(queue)
  /\ \E c \in Cards : IsActiveCard(c) /\ HasRow(c) /\ c \in IdsOf(queue)

\* C6: a queue entry has is_new = true exactly when the store holds no
\* scheduling row for its item.
C6_IsNewIffNoRow ==
  Success => \A i \in DOMAIN queue : queue[i].is_new <=> ~HasRow(queue[i].flashcard_id)

\* C7: with a concrete scope set S every entry (returned or counted) has its
\* summary_id in S; with no course_id an active item is left out only for
\* being due later.
C7_ScopeFilter ==
  Success =>
    /\ allowedSummaryIds.kind = "set" =>
         /\ \A i \in DOMAIN queue : queue[i].summary_id \in allowedSummaryIds.ids
         /\ \A i \in DOMAIN response.queue :
              response.queue[i].summary_id \in allowedSummaryIds.ids
         /\ response.meta.total_in_queue =
              Cardinality({c \in IdsOf(queue) :
                             flashcards[c].summary_id \in allowedSummaryIds.ids})
    /\ courseId = Null =>
         \A c \in Cards :
           IsActiveCard(c) => c \in IdsOf(queue) \/ (~includeFuture /\ DueLater(c))
C7_Witness ==
  /\ Success /\ allowedSummaryIds.kind = "set"
  /\ queue # << >>
  /\ \E c \in Cards :
       IsActiveCard(c) /\ flashcards[c].summary_id \notin allowedSummaryIds.ids

batchedResult(course) ==
  IF get_course_summary_ids(course) = {} THEN NoContent
  ELSE IdSet(get_course_summary_ids(course))
\* The walk with every query succeeding, level after level.
walkResult(course) ==
  LET semesters == semestersQuery(course)
      sections == sectionsQuery(semesters)
      topics == topicsQuery(sections)
      summaries == summariesQuery(topics)
  IN  IF semesters = {} \/ sections = {} \/ topics = {} \/ summaries = {}
        THEN NoContent
        ELSE IdSet(summaries)
\* C8: when the batched query failed and every query of the walk succeeded,
\* the walk resolved what the batched query gives on the same hierarchy:
\* null for no summary, else the same set of summary ids; and so for every
\* course id of the hierarchy.
C8_FallbackEqualsBatched ==
  /\ (scopePc = "done" /\ courseId # Null /\ rpcFailed /\ ~fallbackFailed) =>
       allowedSummaryIds = batchedResult(Val(courseId))
  /\ \A course \in Uuids : walkResult(course) = batchedResult(course)
C8_Witness ==
  /\ scopePc = "done" /\ rpcFailed /\ ~fallbackFailed
  /\ allowedSummaryIds.kind = "set"
  /\ \E r \in deleted : r[1] = "topics" /\ semesterCourse[sectionSemester[topicSection[r[2]]]] = Val(courseId)

\* C9: when the batched query and a query of the walk both failed, the
\* request does not end with a success response.
C9_FallbackFailureIsError ==
  (Answered /\ rpcFailed /\ fallbackFailed) => response.status # 200

\* C10: with a valid course_id, the three mandatory fetches succeeded and the
\* resolver returned null, the answer is a success with an empty list and
\* total_due = total_new = total_in_queue = returned = 0.
C10_EmptyScopeIsSuccess ==
  (Answered /\ courseId # Null /\ isUuid(Val(courseId)) /\ MandatoryOk
     /\ allowedSummaryIds.kind = "null") =>
    /\ response.status = 200
    /\ response.queue = << >>
    /\ response.meta.total_due = 0 /\ response.meta.total_new = 0
    /\ response.meta.total_in_queue = 0 /\ response.meta.returned = 0
C10_Witness ==
  /\ Answered /\ courseId # Null /\ MandatoryOk
  /\ rpcFailed /\ ~fallbackFailed /\ allowedSummaryIds.kind = "null"
  /\ semestersQuery(Val(courseId)) # {}
  /\ response.status = 200 /\ response.queue = << >>
  /\ \E c \in Cards : IsActiveCard(c)

\* ------------------------------------------ scoring one card (378-394)
\* The two calls the join loop makes for a card with a scheduling row, over
\* rows of every shape: due_at absent, far past, near and far future; huge
\* lapses or repetitions; stability at or below 0; last_review_at absent,
\* far past or after now.  Dates are days from now.
FSRS_STATES == {"new", "learning", "review", "relearning"}
DueDays == {-10000, -30, -1, 0, 1, 10000}
PKnows == {0, 250 * Milli, 500 * Milli, Unit}
ScoreInputs ==
  [dueAt : {Null} \cup {Some(d) : d \in DueDays},
   fsrsLapses : {0, 1, 2000},
   fsrsReps : {0, 1, 2000},
   fsrsState : FSRS_STATES,
   pKnow : PKnows,
   lastReviewAt : {Null} \cup {Some(d) : d \in {-10000, -1, 0, 5}},
   stability : {-1, 0, 1, 2}]

StudyIdle ==
  StudyInit(ScopeCatalogs, DeletedChoices,
            {[course_id |-> Null, include_future |-> Null, limit |-> Null]})

InitScore ==
  /\ StudyIdle
  /\ scoreInput \in ScoreInputs /\ scoreOutput = Null
  /\ LimiterIdle
  /\ BillingIdle
  /\ MuxIdle

ScoreCard ==
  /\ scoreOutput = Null
  /\ scoreOutput' =
       Some([needScore |-> calculateNeedScore(scoreInput, 0),
             retention |-> calculateRetention(scoreInput.lastReviewAt,
                                              scoreInput.stability, 0)])
  /\ UNCHANGED <<scoreInput, nonScoreVars>>

NextScore == ScoreCard
SpecScore == InitScore /\ [][NextScore]_vars

\* ------------------------------------------------ the limiter at work
\* Calls of checkRateLimit as the clock advances by half windows, for one
\* key under the middleware version (120 calls fill a window) and for two
\* keys under the version with a RateLimitConfig.
MaxTicks == 3        \* clock steps
MaxOver == 2         \* calls of a key past the maximum of a window
ClockStep == RATE_LIMIT_WINDOW_MS \div 2
ProbeKey == "u1"
MiddlewareKeys == {ProbeKey}
Configs == [maxRequests : {1, 2, 3}, windowMs : {ClockStep, RATE_LIMIT_WINDOW_MS}]

InitRateLimit ==
  /\ StudyIdle
  /\ ScoreIdle
  /\ BillingIdle
  /\ MuxIdle
  /\ version \in Versions
  /\ config \in (IF version = "middleware" THEN {MiddlewareConfig} ELSE Configs)
  /\ clock = 0
  /\ rateLimitMap = NoEntries /\ store = NoEntries
  /\ lastCall = Null /\ window = NoWindows
  /\ probeStart \in {i * ClockStep : i \in 0..MaxTicks}
  /\ probeAllowed = 0

\* The history of a key: its latest window opens with the first call, or the
\* first call after the previous window ended, and lasts windowMs.
windowOver(key) == window[key].end < 0 \/ clock > window[key].end
callable(key) ==
  windowOver(key) \/ window[key].calls < config.maxRequests + MaxOver
observe(key, allowed) ==
  /\ window' =
       [window EXCEPT ![key] =
          IF windowOver(key) THEN [calls |-> 1, end |-> clock + config.windowMs]
          ELSE [calls |-> window[key].calls + 1, end |-> window[key].end]]
  /\ lastCall' =
       Some([key |-> key, allowed |-> allowed,
             expired |-> window[key].end >= 0 /\ clock > window[key].end,
             prevCalls |-> window[key].calls])
  /\ probeAllowed' =
       IF /\ key = ProbeKey /\ allowed
          /\ clock >= probeStart /\ clock < probeStart + config.windowMs
         THEN probeAllowed + 1
         ELSE probeAllowed

CheckRateLimit ==
  /\ version = "middleware"
  /\ \E key \in MiddlewareKeys :
       /\ callable(key)
       /\ rateLimitMap' =
            [rateLimitMap EXCEPT ![key] = checkRateLimit(rateLimitMap[key], clock).entry]
       /\ observe(key, checkRateLimit(rateLimitMap[key], clock).allowed)
  /\ UNCHANGED <<version, config, clock, store, probeStart, nonLimiterVars>>

CheckRateLimitConfigShared ==
  /\ version = "config"
  /\ \E key \in Keys :
       /\ callable(key)
       /\ store' =
            [k \in Keys |-> checkRateLimitConfig(store[key], config, clock).entry]
       /\ observe(key, checkRateLimitConfig(store[key], config, clock).allowed)
  /\ UNCHANGED <<version, config, clock, rateLimitMap, probeStart, nonLimiterVars>>

CheckRateLimitConfig ==
  /\ version = "config"
  /\ \E key \in Keys :
       /\ callable(key)
       /\ store' =
            [store EXCEPT ![key] = checkRateLimitConfig(store[key], config, clock).entry]
       /\ observe(key, checkRateLimitConfig(store[key], config, clock).allowed)
  /\ UNCHANGED <<version, config, clock, rateLimitMap, probeStart, nonLimiterVars>>

CleanupExpired ==
  /\ version = "middleware"
  /\ rateLimitMap' = cleanupExpired(rateLimitMap, clock)
  /\ lastCall' = Null
  /\ UNCHANGED <<version, config, clock, store, window, probeStart, probeAllowed,
                 nonLimiterVars>>

CleanupTimer ==
  /\ version = "config"
  /\ store' = cleanupExpired(store, clock)
  /\ lastCall' = Null
  /\ UNCHANGED <<version, config, clock, rateLimitMap, window, probeStart,
                 probeAllowed, nonLimiterVars>>

Tick ==
  /\ clock < MaxTicks * ClockStep
  /\ clock' = clock + ClockStep
  /\ lastCall' = Null
  /\ UNCHANGED <<version, config, rateLimitMap, store, window, probeStart,
                 probeAllowed, nonLimiterVars>>

NextRateLimit ==
  \/ CheckRateLimit
  \/ CheckRateLimitConfig
  \/ CleanupExpired
  \/ CleanupTimer
  \/ Tick

SpecRateLimit == InitRateLimit /\ [][NextRateLimit]_vars

\* ================================================= claims, continued
NoFetchIssued ==
  /\ bktResult = "none" /\ fsrsResult = "none" /\ flashcardsResult = "none"
  /\ scopePc = "none"
\* C11: a request whose course_id is present and is no well-formed uuid is
\* answered 400, and none of the four fetches is ever issued for it.
C11_InvalidScopeRejected ==
  (query.course_id # Null /\ ~isUuid(Val(query.course_id))) =>
    /\ NoFetchIssued
    /\ Answered => response.status = 400

\* What a limit text asks for, read off the text: the decimal numeral it
\* starts with, after white space and a sign; Null when it starts with none.
RECURSIVE numeral(_, _)
numeral(text, n) ==
  IF n = 0 THEN 0 ELSE 10 * numeral(text, n - 1) + digitValue(text[n])
requestedLimit(param) ==
  IF param = Null THEN Null
  ELSE LET text == Val(param)
           start == CHOOSE i \in 1..(Len(text) + 1) :
                      /\ \A j \in 1..(i - 1) : text[j] = " "
                      /\ i = Len(text) + 1 \/ text[i] # " "
           rest == SubSeq(text, start, Len(text))
           body == IF rest # << >> /\ rest[1] \in {"+", "-"} THEN Tail(rest) ELSE rest
           digits == CHOOSE n \in 0..Len(body) :
                       /\ \A j \in 1..n : isDigit(body[j])
                       /\ n = Len(body) \/ ~isDigit(body[n + 1])
       IN  IF digits = 0 THEN Null
           ELSE IF rest[1] = "-" THEN Some(0 - numeral(body, digits))
           ELSE Some(numeral(body, digits))
\* C12: the effective limit is 20 when the limit parameter is absent, is not
\* numeric, or asks for zero or less; 100 when it asks for more than 100;
\* what it asks for otherwise.  So it lies in 1..100, and a success response
\* returns at most that many entries.
C12_EffectiveLimit ==
  pc # "idle" =>
    /\ limit = IF requestedLimit(query.limit) = Null THEN 20
               ELSE IF Val(requestedLimit(query.limit)) <= 0 THEN 20
               ELSE IF Val(requestedLimit(query.limit)) > 100 THEN 100
               ELSE Val(requestedLimit(query.limit))
    /\ limit \in 1..100
    /\ Success =>
         /\ Len(response.queue) <= limit
         /\ response.meta.limit = limit
         /\ response.meta.returned = Len(response.queue)
C12_Witness ==
  /\ Success /\ query.limit = Some(<<"2">>)
  /\ Len(response.queue) = 2 /\ response.meta.total_in_queue = 3

\* C13: the need score and the retention of a card lie in [0, 1], before and
\* after they are rounded for the queue entry, for every p_know in [0, 1],
\* every lapses and repetitions, every due_at, last_review_at and stability.
C13_ScoresInUnitRange ==
  scoreOutput # Null =>
    /\ Val(scoreOutput).needScore \in 0..Unit
    /\ Val(scoreOutput).retention \in 0..Unit
    /\ Round3(Val(scoreOutput).needScore) \in 0..Milli
    /\ Round3(Val(scoreOutput).retention) \in 0..Milli
C13_Witness ==
  /\ scoreOutput # Null
  /\ scoreInput.fsrsLapses = 2000 /\ scoreInput.fsrsReps = 0
  /\ scoreInput.dueAt = Some(-10000) /\ scoreInput.fsrsState = "new"
  /\ scoreInput.pKnow = 0
  /\ scoreInput.lastReviewAt = Some(5) /\ scoreInput.stability = 1
  /\ Val(scoreOutput).needScore > 990 * Milli
  /\ Val(scoreOutput).retention = Unit

\* C14: with the other inputs fixed, the need score does not decrease when
\* the card is more days overdue (an earlier due_at), nor when p_know is
\* lower.
C14_Monotone ==
  scoreOutput # Null =>
    /\ scoreInput.dueAt # Null =>
         \A d \in DueDays :
           d <= Val(scoreInput.dueAt) =>
             calculateNeedScore([scoreInput EXCEPT !.dueAt = Some(d)], 0)
               >= Val(scoreOutput).needScore
    /\ \A p \in PKnows :
         p <= scoreInput.pKnow =>
           calculateNeedScore([scoreInput EXCEPT !.pKnow = p], 0)
             >= Val(scoreOutput).needScore
C14_Witness ==
  /\ scoreOutput # Null
  /\ scoreInput.dueAt = Some(-1) /\ scoreInput.pKnow = 500 * Milli
  /\ calculateNeedScore([scoreInput EXCEPT !.dueAt = Some(-30)], 0)
       > Val(scoreOutput).needScore
  /\ calculateNeedScore([scoreInput EXCEPT !.pKnow = 0], 0)
       > Val(scoreOutput).needScore

HasMastery(c) ==
  /\ flashcards[c].subtopic_id # Null
  /\ bkt_states[Val(flashcards[c].subtopic_id)] # Null
MasteryOf(c) ==
  IF HasMastery(c) THEN Val(bkt_states[Val(flashcards[c].subtopic_id)]).p_know
  ELSE 0
NewItemScore(c) == Round3((50 * Unit + 30 * (Unit - MasteryOf(c))) \div 100)
\* C15 as stated: an entry with no scheduling state has need_score
\* 0.50 + 0.30 (1 - p_know), and 0.70 when its concept has no mastery row.
C15_NewItemScore ==
  Success =>
    \A i \in DOMAIN queue :
      queue[i].is_new =>
        /\ queue[i].need_score = NewItemScore(queue[i].flashcard_id)
        /\ ~HasMastery(queue[i].flashcard_id) => queue[i].need_score = 700
\* C15, amended: an entry with no scheduling state has need_score
\* 0.50 + 0.30 (1 - p_know), which is 0.80 when its concept has no mastery
\* row.
C15_NewItemScoreAmended ==
  Success =>
    \A i \in DOMAIN queue :
      queue[i].is_new =>
        /\ queue[i].need_score = NewItemScore(queue[i].flashcard_id)
        /\ ~HasMastery(queue[i].flashcard_id) => queue[i].need_score = 800
C15_Witness ==
  /\ Success
  /\ \E i \in DOMAIN queue :
       /\ queue[i].is_new /\ HasMastery(queue[i].flashcard_id)
       /\ queue[i].need_score = 620
  /\ \E i \in DOMAIN queue :
       /\ queue[i].is_new /\ ~HasMastery(queue[i].flashcard_id)
       /\ queue[i].need_score = 800

\* What the scope resolution of the request came to, from the outcomes of its
\* queries alone.
scopeOutcome ==
  IF ~Truthy(courseId) THEN NoFilter
  ELSE IF fallbackFailed THEN NoContent
  ELSE batchedResult(Val(courseId))
orderedQueue(cards) ==
  sortQueue(joinLoop(cards, scopeOutcome, fsrsQuery(includeFuture, now), bktQuery,
                     includeFuture, now))
\* C16: the answer is a function of the store, the parameters and what each
\* fetch returned (rows or error; the row order of the flashcards fetch
\* included), whatever the order in which the fetches completed: a 500 when
\* a mandatory fetch failed, the empty success when the scope came to null,
\* else the queue built from the returned rows, with its counters.
C16_CompletionOrderIrrelevant ==
  (Answered /\ response.status # 400) =>
    IF ~MandatoryOk THEN response.status = 500 /\ response.queue = << >>
    ELSE IF scopeOutcome.kind = "null"
      THEN response.status = 200 /\ response.queue = << >>
           /\ response.meta.total_in_queue = 0
    ELSE \E cards \in Orders(flashcardsQuery) :
           /\ response.status = 200
           /\ response.queue = slice(orderedQueue(cards), limit)
           /\ queue = orderedQueue(cards)
           /\ response.meta.total_due = countReview(orderedQueue(cards))
           /\ response.meta.total_new = countNew(orderedQueue(cards))
           /\ response.meta.total_in_queue = Len(orderedQueue(cards))
C16_Witness ==
  /\ Success /\ rpcFailed /\ ~fallbackFailed /\ MandatoryOk
  /\ scopeOutcome.kind = "set"
  /\ queue # << >>
  /\ \E c \in Cards :
       IsActiveCard(c) /\ flashcards[c].summary_id \notin scopeOutcome.ids

IsDue(c) ==
  /\ HasRow(c)
  /\ Val(fsrs_states[c]).due_at # Null
  /\ Val(Val(fsrs_states[c]).due_at) <= now
\* C17: in a success response total_due is the number of items of the queue
\* before truncation that have a scheduling row with due_at not later than
\* now, with include_future or without.
C17_TotalDue ==
  Success => response.meta.total_due = Cardinality({c \in IdsOf(queue) : IsDue(c)})

\* C18: in a window of a key, a call is allowed exactly when it is among the
\* first MAX calls of the window (MAX = RATE_LIMIT_MAX_REQUESTS, or
\* config.maxRequests >= 1): the first MAX are allowed, every later one is
\* denied.
C18_FirstMaxAllowed ==
  lastCall # Null =>
    (Val(lastCall).allowed <=>
       window[Val(lastCall).key].calls <= config.maxRequests)
C18_Witness ==
  /\ lastCall # Null /\ version = "middleware"
  /\ ~Val(lastCall).allowed
  /\ window[Val(lastCall).key].calls = RATE_LIMIT_MAX_REQUESTS + 2
  /\ clock = window[Val(lastCall).key].end

\* C19: in any time interval of length RATE_LIMIT_WINDOW_MS, wherever it
\* starts, at most RATE_LIMIT_MAX_REQUESTS calls of a key are allowed.
C19_SlidingWindow ==
  version = "middleware" => probeAllowed <= RATE_LIMIT_MAX_REQUESTS

entryOf(key) == IF version = "middleware" THEN rateLimitMap[key] ELSE store[key]
\* C20: the first call of a key after its window has expired is allowed,
\* even if the key was denied before, and leaves a new window with count 1
\* and resetAt = now + the window length.
C20_ExpiredWindowResets ==
  (lastCall # Null /\ Val(lastCall).expired) =>
    /\ Val(lastCall).allowed
    /\ entryOf(Val(lastCall).key) =
         Some([count |-> 1, resetAt |-> clock + config.windowMs])
C20_Witness ==
  /\ lastCall # Null /\ Val(lastCall).expired /\ Val(lastCall).allowed
  /\ Val(lastCall).prevCalls > config.maxRequests
  /\ version = "middleware"
  /\ entryOf(Val(lastCall).key) # Null

Deliver(d) ==
  /\ deliveries[d].pc = "waiting"
  /\ \E e \in EventIds, verified \in BOOLEAN :
       deliveries' =
         [deliveries EXCEPT ![d] =
            IF verified THEN [event |-> e, pc |-> "check", response |-> ""]
            ELSE [event |-> e, pc |-> "done", response |-> "400"]]
  /\ UNCHANGED <<processed_webhook_events, institution_subscriptions, memberships,
                 nonBillingVars>>

\* the idempotency check (176-194)
IdempotencyCheck(d) ==
  /\ deliveries[d].pc = "check"
  /\ deliveries' =
       [deliveries EXCEPT ![d] =
          IF deliveries[d].event \in processed_webhook_events
            THEN [@ EXCEPT !.pc = "done", !.response = "deduplicated"]
            ELSE [@ EXCEPT !.pc = "process"]]
  /\ UNCHANGED <<processed_webhook_events, institution_subscriptions, memberships,
                 nonBillingVars>>

\* the write to institution_subscriptions of the event's case (197-261)
ProcessEvent(d) ==
  /\ deliveries[d].pc = "process"
  /\ institution_subscriptions' =
       [institution_subscriptions EXCEPT ![deliveries[d].event] = @ + 1]
  /\ deliveries' =
       [deliveries EXCEPT ![d].pc =
          IF EventTypes[deliveries[d].event] = "checkout.session.completed"
            THEN "memberships" ELSE "mark"]
  /\ UNCHANGED <<processed_webhook_events, memberships, nonBillingVars>>

\* checkout.session.completed: the update of memberships (220-222)
UpdateMemberships(d) ==
  /\ deliveries[d].pc = "memberships"
  /\ memberships' = [memberships EXCEPT ![deliveries[d].event] = @ + 1]
  /\ deliveries' = [deliveries EXCEPT ![d].pc = "mark"]
  /\ UNCHANGED <<processed_webhook_events, institution_subscriptions, nonBillingVars>>

\* the event is marked as processed (263-275); a second insert of the same
\* (event_id, source) fails on the unique index and the error is ignored
MarkProcessed(d) ==
  /\ deliveries[d].pc = "mark"
  /\ processed_webhook_events' = processed_webhook_events \cup {deliveries[d].event}
  /\ deliveries' = [deliveries EXCEPT ![d].pc = "done", ![d].response = "received"]
  /\ UNCHANGED <<institution_subscriptions, memberships, nonBillingVars>>

NextBilling ==
  \E d \in Deliveries :
    \/ Deliver(d)
    \/ IdempotencyCheck(d)
    \/ ProcessEvent(d)
    \/ UpdateMemberships(d)
    \/ MarkProcessed(d)

InitIdle == StudyIdle /\ ScoreIdle /\ LimiterIdle /\ BillingIdle /\ MuxIdle
SpecBilling == InitIdle /\ [][NextBilling]_vars

\* ------------------------------------------------- POST /mux/track-view
\* newViewCount (357) from the row read at 349-354
newViewCount(existing) == (IF existing = Null THEN 0 ELSE Val(existing)) + 1
\* upsert_video_view: view_count 1 on insert, view_count + 1 on conflict
upsert_video_view(row) == IF row = Null THEN 1 ELSE Val(row) + 1

\* the handler up to its read of the existing row (326-354)
TrackViewRead(c) ==
  /\ trackViews[c].pc = "waiting"
  /\ \E key \in ViewKeys :
       trackViews' =
         [trackViews EXCEPT ![c] =
            [key |-> key, via |-> "route", pc |-> "read",
             existing |-> video_views[key], ok |-> FALSE]]
  /\ UNCHANGED <<video_views, nonMuxVars>>

\* the upsert with the computed view_count (359-379), which may fail
TrackViewUpsert(c) ==
  /\ trackViews[c].pc = "read"
  /\ \E upsertOk \in BOOLEAN :
       /\ video_views' =
            IF upsertOk
              THEN [video_views EXCEPT ![trackViews[c].key] =
                      Some(newViewCount(trackViews[c].existing))]
              ELSE video_views
       /\ trackViews' = [trackViews EXCEPT ![c].pc = "done", ![c].ok = upsertOk]
  /\ UNCHANGED nonMuxVars

\* a call of the database function, one statement
UpsertVideoView(c) ==
  /\ trackViews[c].pc = "waiting"
  /\ \E key \in ViewKeys :
       /\ video_views' =
            [video_views EXCEPT ![key] = Some(upsert_video_view(video_views[key]))]
       /\ trackViews' =
            [trackViews EXCEPT ![c] =
               [key |-> key, via |-> "rpc", pc |-> "done",
                existing |-> Null, ok |-> TRUE]]
  /\ UNCHANGED nonMuxVars

NextMux ==
  \E c \in Calls :
    \/ TrackViewRead(c)
    \/ TrackViewUpsert(c)
    \/ UpsertVideoView(c)

SpecMux == InitIdle /\ [][NextMux]_vars

\* ================================================= claims, the last part
\* C22: for every event id, the writes to institution_subscriptions and to
\* memberships made for the event are made at most once, over all its
\* deliveries, retried or concurrent.
C22_AppliedAtMostOnce ==
  \A e \in EventIds : institution_subscriptions[e] <= 1 /\ memberships[e] <= 1

viewCalls(key) == {c \in Calls : trackViews[c].pc # "waiting" /\ trackViews[c].key = key}
\* C23: once the calls of track-view for a (video, user) have returned, none
\* of them through the database function, the stored view_count is the
\* number of those calls that succeeded.
C23_NoLostIncrement ==
  \A key \in ViewKeys :
    (\A c \in viewCalls(key) : trackViews[c].pc = "done" /\ trackViews[c].via = "route")
      => (IF video_views[key] = Null THEN 0 ELSE Val(video_views[key]))
           = Cardinality({c \in viewCalls(key) : trackViews[c].ok})

\* The queue the join loop builds from every scheduling row of the learner,
\* i.e. with the due_at <= now filter left off the fetch.
unfilteredQueue(cards) ==
  sortQueue(joinLoop(cards, allowedSummaryIds, fsrsQuery(TRUE, now), bktQuery,
                     includeFuture, now))
\* C24: with include_future = false, a success response (entries, order,
\* counters) is the one the handler would build had the scheduling rows
\* been fetched without the due_at <= now filter.
C24_PrefilterIsOptimization ==
  (Success /\ ~includeFuture /\ ~emptyScope) =>
    \E cards \in Orders(flashcardsQuery) :
      /\ response.queue = slice(unfilteredQueue(cards), limit)
      /\ response.meta.total_due = countReview(unfilteredQueue(cards))
      /\ response.meta.total_new = countNew(unfilteredQueue(cards))
      /\ response.meta.total_in_queue = Len(unfilteredQueue(cards))
      /\ response.meta.returned = Len(slice(unfilteredQueue(cards), limit))

\* C25: once a mandatory fetch of a request has failed, the next step of the
\* request is its error response: no other fetch, and no query of the scope
\* resolution, completes in between.
C25_AbortOnFirstFailure ==
  [][(pc = "fetching" /\ fetchError # "") =>
       (pc' = "done" /\ response'.status = 500)]_vars

Launched == {"pending", "ok", "error"}
Completed == {"ok", "error"}
\* C26: while a request is inside Promise.all every fetch has been launched
\* (the three mandatory ones and, with a scope, the scope resolution; without
\* one the fourth promise is already resolved), so none is launched after
\* the completion of another; and the request is answered from the join
\* only when the three mandatory fetches and the scope resolution have all
\* completed.
C26_LaunchAllThenJoin ==
  /\ pc = "fetching" =>
       /\ bktResult \in Launched /\ fsrsResult \in Launched
       /\ flashcardsResult \in Launched
       /\ scopePc # "none"
       /\ ~Truthy(courseId) => scopePc = "done"
  /\ pc = "idle" => NoFetchIssued
  /\ (pc = "done" /\ response.status # 400) =>
       /\ bktResult \in Completed /\ fsrsResult \in Completed
       /\ flashcardsResult \in Completed
       /\ scopePc = "done"
C26_Witness ==
  /\ pc = "done" /\ response.status = 200 /\ Len(response.queue) > 0
  /\ Truthy(courseId) /\ rpcFailed /\ allowedSummaryIds.kind = "set"

WalkLevels == {"semesters", "sections", "topics", "summaries"}
\* C27: in the fallback walk the query of a level is issued only with the
\* non-empty id list the previous level returned, and a level that returns
\* no row ends the walk at once: the resolver returns null and issues no
\* further query.
C27_WalkShortCircuits ==
  [][(scopePc \in WalkLevels /\ scopePc' # scopePc) =>
       /\ fallbackQuery(scopePc, Val(courseId), scopeIds) = {} =>
            (scopePc' = "done" /\ allowedSummaryIds' = NoContent)
       /\ scopePc' \in WalkLevels =>
            /\ scopeIds' # {}
            /\ scopeIds' = fallbackQuery(scopePc, Val(courseId), scopeIds)]_vars
C27_Witness ==
  /\ scopePc = "done" /\ rpcFailed /\ ~fallbackFailed
  /\ allowedSummaryIds = NoContent
  /\ sectionsQuery(semestersQuery(Val(courseId))) # {}
  /\ topicsQuery(sectionsQuery(semestersQuery(Val(courseId)))) = {}

\* -------------------------------------------- mastery rows of any content
\* The handler over bkt_states rows written by any writer of the table: the
\* p_know column holds a number, inside [0,1] or not.
StoredPKnows == {-200 * Milli, 0, 600 * Milli, Unit, 1200 * Milli}
WideBktTables ==
  [SubtopicIds -> {Null} \cup {Some([p_know |-> p]) : p \in StoredPKnows}]
InitMastery ==
  /\ StudyInitWith(ScopeCatalogs, WideBktTables, DeletedChoices,
                   Queries({Null, Some(CourseUuid("a"))}, {Null}, LimitParams))
  /\ ScoreIdle /\ LimiterIdle /\ BillingIdle /\ MuxIdle
SpecMastery == InitMastery /\ [][Next]_vars

\* C28: in a success response the p_know of every entry (the value the
\* entry was scored with, in thousandths) lies in [0,1], whatever p_know
\* the concept's bkt_states row holds.
C28_PKnowWithinUnit ==
  Success => \A i \in 1..Len(queue) : queue[i].p_know >= 0 /\ queue[i].p_know <= 1000

\* the weighted sum of line 90-94, before the clamp of line 96
composite(input, t) ==
  (overdueWeight * overdueFactor(input.dueAt, t)
   + masteryWeight * (Unit - input.pKnow)
   + fragilityWeight * needFragility(input.fsrsLapses, input.fsrsReps)
   + noveltyWeight * needNovelty(input.fsrsState)) \div 100
\* C29: the four weights add up to 1 (100 hundredths), and for a card whose
\* p_know is in [0,1] the weighted sum of the four factors is itself in
\* [0,1], so the clamp returns it unchanged.
C29_WeightsSumToOne ==
  /\ overdueWeight + masteryWeight + fragilityWeight + noveltyWeight = 100
  /\ (scoreOutput # Null /\ scoreInput.pKnow >= 0 /\ scoreInput.pKnow <= Unit) =>
       /\ composite(scoreInput, 0) >= 0 /\ composite(scoreInput, 0) <= Unit
       /\ Val(scoreOutput).needScore = composite(scoreInput, 0)
C29_Witness ==
  /\ scoreOutput # Null /\ scoreInput.dueAt = Null /\ scoreInput.pKnow = 0
  /\ scoreInput.fsrsState = "new" /\ scoreInput.fsrsLapses = 2000
  /\ Val(scoreOutput).needScore > 999 * Milli

\* C30: in every success response total_due + total_new = total_in_queue,
\* and returned = min(limit, total_in_queue) = the length of the returned
\* list.
C30_CountersAddUp ==
  Success =>
    /\ response.meta.total_due + response.meta.total_new
         = response.meta.total_in_queue
    /\ response.meta.returned = Min(response.meta.limit, response.meta.total_in_queue)
    /\ response.meta.returned = Len(response.queue)
C30_Witness ==
  /\ Success /\ response.meta.total_due > 0 /\ response.meta.total_new > 0
  /\ response.meta.returned < response.meta.total_in_queue
====
